---- MODULE Spec2Model ----
(***************************************************************************)
(* Model of cospar/tool/_map.py: the fate-coupling / fate-hierarchy        *)
(* pipeline (fate_coupling, fate_hierarchy) and the fate-map consumers     *)
(* (fate_map, fate_potency, fate_bias, differentiation_trajectory) acting  *)
(* on one annotated-data container `adata`.                                *)
(*                                                                         *)
(* Python lists are TLA+ sequences; a Python position p (0-based) is the   *)
(* sequence index p+1, see At.  Python dicts are functions whose DOMAIN is *)
(* the key set.  Coupling values and probabilities are integers (a fixed   *)
(* unit); the external kernels are represented by the values they return.  *)
(***************************************************************************)
EXTENDS Integers, Sequences, FiniteSets, TLC

\* ------------------------------------------------------------------ bounds
MaxFates == 4
MaxY == 1
MaxTotalFates == 6
MaxP == 1
MaxThresh == 1
MaxPseudo == 1
MaxCalls == 2
MaxBias == 2
MaxDim == 3
MaxEntry == 1

\* ------------------------------------------------------- program constants
FloorOffset == 100
NumBiasFates == 2
NaN == -1

VARIABLES
    pc,                     \* position of the running fate_hierarchy call
    call,                   \* arguments of the current / last call
    raised,                 \* exception the last call ended with, or "none"
    budget,                 \* remaining number of fate clusters to process
    uns_fate_coupling,      \* adata.uns[f"fate_coupling_{source}"]
    uns_fate_hierarchy,     \* adata.uns[f"fate_hierarchy_{source}"]
    fate_N,
    X_history,
    merged_pairs_history,
    node_names_history,
    node_groups,
    parent_map,
    parent_map_writes,      \* number of item assignments made to parent_map
    selected_fates_tmp,
    node_names,
    next_node,
    counter,
    fate_names,
    fate_prob,              \* what compute_fate_probability_map yields on adata
    obs_fate_map,           \* adata.obs[f"fate_map_{source}_{fate}"]
    uns_fate_map,           \* adata.uns[f"fate_map_{source}"]
    uns_fate_potency,       \* adata.uns["fate_potency"]
    obs_fate_bias,          \* adata.obs[f"fate_bias_{source}_{A}*{B}"]
    uns_fate_bias,          \* adata.uns[f"fate_bias_{source}"]
    obs_fate_potency,       \* adata.obs[f"fate_potency_{source}"]
    uns_fate_potency_src,   \* adata.uns[f"fate_potency_{source}"]
    obs_cell_group,         \* adata.obs["cell_group_A"], adata.obs["cell_group_B"]
    obs_traj                \* adata.obs[f"traj_{fate_name}"]

hvars == <<fate_N, X_history, merged_pairs_history, node_names_history,
           node_groups, parent_map, parent_map_writes, selected_fates_tmp,
           node_names, next_node, counter, fate_names>>

tvars == <<obs_fate_potency, uns_fate_potency_src, obs_cell_group, obs_traj>>

mvars == <<fate_prob, obs_fate_map, uns_fate_map, uns_fate_potency,
           obs_fate_bias, uns_fate_bias, tvars>>

cvars == <<uns_fate_coupling, uns_fate_hierarchy>>

vars == <<pc, call, raised, budget, uns_fate_coupling, uns_fate_hierarchy,
          fate_N, X_history, merged_pairs_history, node_names_history,
          node_groups, parent_map, parent_map_writes, selected_fates_tmp,
          node_names, next_node, counter, fate_names,
          fate_prob, obs_fate_map, uns_fate_map, uns_fate_potency,
          obs_fate_bias, uns_fate_bias,
          obs_fate_potency, uns_fate_potency_src, obs_cell_group, obs_traj>>

\* ------------------------------------------------------ Python list helpers
At(s, p) == s[p + 1]

Range0(n) == 0 .. (n - 1)

SeqRange0(n) == [i \in 1 .. n |-> i - 1]

Elems(s) == {s[i] : i \in 1 .. Len(s)}

NoDup(s) == \A i, j \in 1 .. Len(s) : s[i] = s[j] => i = j

SetMin(S) == CHOOSE x \in S : \A y \in S : x <= y

SetMax(S) == CHOOSE x \in S : \A y \in S : y <= x

\* list.insert(ix, x)
Insert(s, ix, x) == SubSeq(s, 1, ix) \o <<x>> \o SubSeq(s, ix + 1, Len(s))

\* --------------------------------------------------------- the data table
\* adata.obs["state_info"]: one cell per cluster label 0 .. MaxFates
StateInfo == [c \in 1 .. (MaxFates + 1) |-> c - 1]

\* adata.obs["time_info"]
TimeInfo == [c \in 1 .. (MaxFates + 1) |-> 1 + (c % 2)]

\* adata.uns["available_map"], as hf.check_available_map leaves it
AvailableMap == {"transition_map"}

Sources == {"X_clone", "transition_map", "no_such_map"}

\* the sources tried with fate_map and fate_bias
MapSources == {"X_clone", "transition_map"}

StoredSources == {"X_clone", "transition_map"}

NoEntry == [present |-> FALSE]

\* selected_times: None (all cells), or a list of time points
TimeChoices ==
    {[all |-> TRUE, pts |-> {}], [all |-> FALSE, pts |-> {}], [all |-> FALSE, pts |-> {1}]}

\* labels from UnknownOffset on occur in no cell
UnknownOffset == MaxFates + 1

\* the i-th fate (0-based) handed to a call: the first one is a nested list
FateItem(i, known) ==
    LET off == IF known THEN 0 ELSE UnknownOffset
    IN  IF i = 0 THEN [isList |-> TRUE,  labels |-> <<off, off + MaxFates>>]
                 ELSE [isList |-> FALSE, labels |-> <<off + i>>]

FatesList(n, known) == [i \in 1 .. n |-> FateItem(i - 1, known)]

\* a list whose first fate is a cluster of the table and whose other fates
\* are labels that occur in no cell
FirstKnownList(n) == [i \in 1 .. n |-> FateItem(i - 1, i = 1)]

NoneArg == [kind |-> "none", items |-> <<>>]

ListArg(items) == [kind |-> "list", items |-> items]

SelectedFatesChoices ==
    {NoneArg} \cup {ListArg(FatesList(n, kn)) : n \in 0 .. MaxFates, kn \in BOOLEAN}
              \cup {ListArg(FirstKnownList(n)) : n \in 2 .. MaxFates}

\* ------------------------------------------------- external helper models
\* hf.selecting_cells_by_time_points
selecting_cells_by_time_points(time_info, selected_times) ==
    [i \in DOMAIN time_info |-> selected_times.all \/ time_info[i] \in selected_times.pts]

NumSelected(sp_idx) == Cardinality({i \in DOMAIN sp_idx : sp_idx[i]})

\* the label groups a selected_fates argument denotes (None: every cluster)
GroupsOf(selected_fates) ==
    IF selected_fates.kind = "none"
    THEN [i \in 1 .. Len(StateInfo) |-> <<StateInfo[i]>>]
    ELSE [i \in 1 .. Len(selected_fates.items) |-> selected_fates.items[i].labels]

\* hf.analyze_selected_fates: the mega-clusters with at least one cell
analyze_selected_fates(state_annote, selected_fates) ==
    LET present == Elems(state_annote)
        Valid(g) == \E l \in Elems(g) : l \in present
    IN  SelectSeq(GroupsOf(selected_fates), Valid)

\* tl_util.get_normalized_covariance: some symmetric k x k matrix
UpperPairs(k) == {pr \in Range0(k) \X Range0(k) : pr[1] < pr[2]}

SymMatrices(k) ==
    {[i \in 1 .. k |-> [j \in 1 .. k |->
        IF i = j THEN MaxY
        ELSE IF i < j THEN u[<<i - 1, j - 1>>] ELSE u[<<j - 1, i - 1>>]]] :
     u \in [UpperPairs(k) -> 0 .. MaxY]}

\* adata.uns["Tmap_cell_id_t1"], adata.uns["Tmap_cell_id_t2"]: cell ids
Tmap_cell_id_t1 == <<2>>

Tmap_cell_id_t2 == <<0>>

MapCells == Elems(Tmap_cell_id_t1) \cup Elems(Tmap_cell_id_t2)

\* adata.shape[0]
NumCells == Len(StateInfo)

Methods == {"norm-sum", "sum"}

MInit ==
    /\ obs_fate_map = <<>>
    /\ uns_fate_map = <<>>
    /\ uns_fate_potency = NoEntry
    /\ obs_fate_bias = <<>>
    /\ uns_fate_bias = <<>>
    /\ obs_fate_potency = <<>>
    /\ uns_fate_potency_src = <<>>
    /\ obs_cell_group = NoEntry
    /\ obs_traj = <<>>

\* --------------------------------------------------------- fate_coupling
\* v[sp_idx] for a boolean array sp_idx
Masked(v, sp_idx) ==
    LET Keep(i) == sp_idx[i]
        kept == SelectSeq([i \in 1 .. Len(v) |-> i], Keep)
    IN  [p \in 1 .. Len(kept) |-> v[kept[p]]]

\* time_info[cell_ids]
TimeInfoOf(cell_ids) == [p \in 1 .. Len(cell_ids) |-> TimeInfo[cell_ids[p] + 1]]

\* sp_idx: over all cells for "X_clone" (line 198), over the cells of
\* Tmap_cell_id_t1 for a transition map (lines 228-230)
CouplingSpIdx(source, selected_times) ==
    IF source = "X_clone"
    THEN selecting_cells_by_time_points(TimeInfo, selected_times)
    ELSE selecting_cells_by_time_points(TimeInfoOf(Tmap_cell_id_t1), selected_times)

\* mega_cluster_list: for "X_clone" the clusters with a cell among the
\* selected cells (lines 204-210), for a transition map what
\* compute_fate_probability_map returns (lines 232-246)
CouplingClusters(selected_fates, source, selected_times) ==
    IF source = "X_clone"
    THEN analyze_selected_fates(
             Masked(StateInfo, CouplingSpIdx(source, selected_times)), selected_fates)
    ELSE analyze_selected_fates(StateInfo, selected_fates)

\* variant: the transition-map branch does not look at the selected cells
FateCouplingRaises_NoCellCheck(selected_fates, source, selected_times) ==
    LET sp_idx == CouplingSpIdx(source, selected_times)
        mega_cluster_list == CouplingClusters(selected_fates, source, selected_times)
    IN  IF source \notin (AvailableMap \cup {"X_clone"}) THEN "ValueError"
        ELSE IF source = "X_clone"
        THEN IF NumSelected(sp_idx) = 0 THEN "ValueError"
             ELSE IF Len(mega_cluster_list) = 0 THEN "ValueError" ELSE "none"
        ELSE IF Len(mega_cluster_list) = 0 THEN "ValueError" ELSE "none"

\* the exception fate_coupling ends with, "none" when it stores a result
FateCouplingRaises(selected_fates, source, selected_times) ==
    LET sp_idx == CouplingSpIdx(source, selected_times)
        mega_cluster_list == CouplingClusters(selected_fates, source, selected_times)
    IN  IF source \notin (AvailableMap \cup {"X_clone"}) THEN "ValueError"
        ELSE IF source = "X_clone"
        THEN IF NumSelected(sp_idx) = 0 THEN "ValueError"
             ELSE IF Len(mega_cluster_list) = 0 THEN "ValueError" ELSE "none"
        ELSE IF Len(mega_cluster_list) = 0 \/ NumSelected(sp_idx) = 0
             THEN "ValueError" ELSE "none"

\* adata.uns after the store at the end of fate_coupling
StoreCoupling(uns, source, X_coupling, mega_cluster_list) ==
    [uns EXCEPT ![source] = [present |-> TRUE, X_coupling |-> X_coupling,
                             fate_names |-> mega_cluster_list]]

\* -------------------------------------------------------- fate_hierarchy
MatMin(X) == SetMin(UNION {Elems(X[i]) : i \in 1 .. Len(X)})

\* variant: only the lower triangle is overwritten
Mask_BelowDiagonal(X) ==
    LET floor == MatMin(X) - FloorOffset
    IN  [i \in 1 .. Len(X) |-> [j \in 1 .. Len(X[i]) |->
            IF i > j THEN floor ELSE X[i][j]]]

\* lines 87-91: the lower triangle and the diagonal are overwritten in place
Mask(X) ==
    LET floor == MatMin(X) - FloorOffset
    IN  [i \in 1 .. Len(X) |-> [j \in 1 .. Len(X[i]) |->
            IF i >= j THEN floor ELSE X[i][j]]]

\* variant: the history keeps the array that is masked in place
Snapshot_Alias(X) == Mask(X)

\* line 86: np.array(X_coupling), a copy taken before the masking
Snapshot(X) == X

\* X.max(1) and X.max(0)
RowMax(X) == [i \in 1 .. Len(X) |-> SetMax(Elems(X[i]))]

ColMax(X) == [j \in 1 .. Len(X) |-> SetMax({X[i][j] : i \in 1 .. Len(X)})]

\* np.argmax: the first position holding the maximum
ArgMax(v) ==
    LET m == SetMax(Elems(v))
    IN  (CHOOSE i \in 1 .. Len(v) : v[i] = m /\ \A k \in 1 .. (i - 1) : v[k] < m) - 1

SelectII(Xm) == ArgMax(RowMax(Xm))

\* variant: the column position taken from the row-wise maxima
SelectJJ_RowWise(Xm) == ArgMax(RowMax(Xm))

SelectJJ(Xm) == ArgMax(ColMax(Xm))

\* variant: the group of the second merged node comes first
MergeGroups_Reversed(groups, names, ii, jj, new_node) ==
    (new_node :> (groups[At(names, jj)] \o groups[At(names, ii)])) @@ groups

\* node_groups[next_node] = node_groups[node_names[ii]] + node_groups[node_names[jj]]
MergeGroups(groups, names, ii, jj, new_node) ==
    (new_node :> (groups[At(names, ii)] \o groups[At(names, jj)])) @@ groups

\* parent_map[node_names[ii]] = next_node; parent_map[node_names[jj]] = next_node
SetParents(pm, names, ii, jj, new_node) ==
    (At(names, jj) :> new_node) @@ ((At(names, ii) :> new_node) @@ pm)

\* the list comprehension of lines 104-106
RemoveMerged(names, ii, jj) ==
    LET Keep(n) == n \notin {At(names, ii), At(names, jj)}
    IN  SelectSeq(names, Keep)

\* new_ix of line 107
NewIx(fate_N_tmp, ii, jj) ==
    LET Keep(i) == i \notin {ii, jj}
    IN  SelectSeq(SeqRange0(fate_N_tmp), Keep)

Min2(a, b) == IF a <= b THEN a ELSE b

\* lines 111-116: the working fate list of the next round
RebuildFates(fates, new_ix, ii, jj, ix) ==
    LET fate_N_tmp == Len(fates)
        new_fate == At(fates, ii) \o At(fates, jj)
        head == [xx \in 1 .. ix |-> At(fates, At(new_ix, xx - 1))]
        tail == [xx \in 1 .. (fate_N_tmp - 2 - ix) |->
                    At(fates, At(new_ix, ix + xx - 1))]
    IN  head \o <<new_fate>> \o tail

\* line 51
EntryCheck(selected_fates) ==
    selected_fates.kind = "list" /\ Len(selected_fates.items) > 0

\* line 118
NextNode(n) == n + 1

\* variant: the founder node gets the id of the last merged node
RootId_LastNode(n) == n - 1

\* the id given to the founder node at line 121
RootId(n) == n

\* lines 120-121
RECURSIVE SetRoot(_, _, _)
SetRoot(pm, names, root) ==
    IF names = <<>> THEN pm
    ELSE SetRoot((Head(names) :> root) @@ pm, Tail(names), root)

\* lines 123-125
NodeMapping(groups, names) ==
    [key \in DOMAIN groups |->
        [p \in 1 .. Len(groups[key]) |-> At(names, groups[key][p])]]

Unbound == [bound |-> FALSE, names |-> <<>>]

Bound(names) == [bound |-> TRUE, names |-> names]

\* what a call takes from the budget: its fates, at least half the budget
MinCost == MaxTotalFates \div 2

Cost(selected_fates) ==
    LET n == Len(GroupsOf(selected_fates)) IN IF n < MinCost THEN MinCost ELSE n

\* no call is running: nothing was called yet, or the last call is over
CallEnabled == pc \in {"idle", "done"}

HInit ==
    /\ fate_N = 0
    /\ X_history = <<>>
    /\ merged_pairs_history = <<>>
    /\ node_names_history = <<>>
    /\ node_groups = <<>>
    /\ parent_map = <<>>
    /\ parent_map_writes = 0
    /\ selected_fates_tmp = <<>>
    /\ node_names = <<>>
    /\ next_node = 0
    /\ counter = 0
    /\ fate_names = Unbound

\* the frame of fate_hierarchy is gone
HClear ==
    /\ fate_N' = 0
    /\ X_history' = <<>>
    /\ merged_pairs_history' = <<>>
    /\ node_names_history' = <<>>
    /\ node_groups' = <<>>
    /\ parent_map' = <<>>
    /\ parent_map_writes' = 0
    /\ selected_fates_tmp' = <<>>
    /\ node_names' = <<>>
    /\ next_node' = 0
    /\ counter' = 0
    /\ fate_names' = Unbound

Init ==
    /\ pc = "idle"
    /\ call = [op |-> "none", selected_fates |-> NoneArg, source |-> "X_clone",
               selected_times |-> [all |-> TRUE, pts |-> {}]]
    /\ raised = "none"
    /\ budget = MaxTotalFates
    /\ uns_fate_coupling = [s \in StoredSources |-> NoEntry]
    /\ uns_fate_hierarchy = [s \in StoredSources |-> NoEntry]
    /\ HInit
    /\ fate_prob = [c \in MapCells |-> [j \in 1 .. NumBiasFates |-> 0]]
    /\ MInit

\* fate_coupling called by the user, lines 191-259
CouplingBody(selected_fates, source, selected_times) ==
    /\ budget >= Cost(selected_fates)
    /\ budget' = budget - Cost(selected_fates)
    /\ call' = [op |-> "fate_coupling", selected_fates |-> selected_fates,
                source |-> source, selected_times |-> selected_times]
    /\ raised' = FateCouplingRaises(selected_fates, source, selected_times)
    /\ IF raised' # "none"
       THEN UNCHANGED uns_fate_coupling
       ELSE LET mega_cluster_list ==
                    CouplingClusters(selected_fates, source, selected_times)
            IN  \E X_coupling \in SymMatrices(Len(mega_cluster_list)) :
                    uns_fate_coupling' = StoreCoupling(uns_fate_coupling, source,
                                                       X_coupling, mega_cluster_list)
    /\ pc' = "idle"
    /\ HClear
    /\ UNCHANGED <<uns_fate_hierarchy, mvars>>

\* the local variables of fate_hierarchy after lines 54-69
InitFrame(selected_fates) ==
    LET n == Len(selected_fates.items)
    IN  [fate_N |-> n,
         X_history |-> <<>>,
         merged_pairs_history |-> <<>>,
         node_names_history |-> <<>>,
         node_groups |-> [i \in Range0(n) |-> <<i>>],
         parent_map |-> <<>>,
         parent_map_writes |-> 0,
         selected_fates_tmp |-> [i \in 1 .. n |-> selected_fates.items[i].labels],
         node_names |-> SeqRange0(n),
         next_node |-> n,
         counter |-> 0,
         fate_names |-> Unbound,
         X_coupling |-> <<>>,
         brk |-> FALSE]

\* the current local variables
Frame ==
    [fate_N |-> fate_N,
     X_history |-> X_history,
     merged_pairs_history |-> merged_pairs_history,
     node_names_history |-> node_names_history,
     node_groups |-> node_groups,
     parent_map |-> parent_map,
     parent_map_writes |-> parent_map_writes,
     selected_fates_tmp |-> selected_fates_tmp,
     node_names |-> node_names,
     next_node |-> next_node,
     counter |-> counter,
     fate_names |-> fate_names,
     X_coupling |-> <<>>,
     brk |-> FALSE]

SetFrame(f) ==
    /\ fate_N' = f.fate_N
    /\ X_history' = f.X_history
    /\ merged_pairs_history' = f.merged_pairs_history
    /\ node_names_history' = f.node_names_history
    /\ node_groups' = f.node_groups
    /\ parent_map' = f.parent_map
    /\ parent_map_writes' = f.parent_map_writes
    /\ selected_fates_tmp' = f.selected_fates_tmp
    /\ node_names' = f.node_names
    /\ next_node' = f.next_node
    /\ counter' = f.counter
    /\ fate_names' = f.fate_names

\* the working fate list as the selected_fates argument of fate_coupling
TmpArg(fates) ==
    ListArg([i \in 1 .. Len(fates) |-> [isList |-> TRUE, labels |-> fates[i]]])

\* lines 71-118: one pass through the loop body, fate_coupling having stored
\* the matrix Y with the names mega_cluster_list
RoundFrame(f, Y, mega_cluster_list) ==
    LET fate_N_tmp == Len(f.selected_fates_tmp)
        X_coupling == Mask(Y)
        ii == SelectII(X_coupling)
        jj == SelectJJ(X_coupling)
        ix == Min2(ii, jj)
        names_1 == RemoveMerged(f.node_names, ii, jj)
        new_ix == NewIx(fate_N_tmp, ii, jj)
        brk == Len(new_ix) = 0
    IN  [fate_N |-> f.fate_N,
         X_history |-> Append(f.X_history, Snapshot(Y)),
         merged_pairs_history |-> Append(f.merged_pairs_history, <<ii, jj>>),
         node_names_history |-> Append(f.node_names_history, f.node_names),
         node_groups |-> MergeGroups(f.node_groups, f.node_names, ii, jj, f.next_node),
         parent_map |-> SetParents(f.parent_map, f.node_names, ii, jj, f.next_node),
         parent_map_writes |-> f.parent_map_writes + 2,
         selected_fates_tmp |->
            IF brk THEN f.selected_fates_tmp
            ELSE RebuildFates(f.selected_fates_tmp, new_ix, ii, jj, ix),
         node_names |-> IF brk THEN names_1 ELSE Insert(names_1, ix, f.next_node),
         next_node |-> IF brk THEN f.next_node ELSE NextNode(f.next_node),
         counter |-> f.counter + 1,
         fate_names |-> IF f.counter + 1 = 1 THEN Bound(mega_cluster_list)
                                             ELSE f.fate_names,
         X_coupling |-> X_coupling,
         brk |-> brk]

\* the loop is left: `break`, or the condition of line 70 is false
LoopExit(f) == f.brk \/ ~(Len(f.node_names) > 2)

\* lines 120-121
FinalParents(f) ==
    [f EXCEPT !.parent_map = SetRoot(f.parent_map, f.node_names, RootId(f.next_node)),
              !.parent_map_writes = f.parent_map_writes + Len(f.node_names)]

\* lines 123-135, reached with the local variables f: the value stored at
\* adata.uns[f"fate_hierarchy_{source}"]
HierarchyResult(f) ==
    [present |-> TRUE,
     parent_map |-> f.parent_map,
     node_mapping |-> NodeMapping(f.node_groups, f.fate_names.names),
     history |-> <<f.X_history, f.merged_pairs_history, f.node_names_history>>,
     fate_names |-> f.fate_names.names]

\* what reading the unbound fate_names inside the list comprehension of
\* line 125 raises: NameError up to Python 3.11, UnboundLocalError from 3.12
UnboundErrors == {"NameError", "UnboundLocalError"}

\* line 125 indexes fate_names with a leaf that has no name
LeafWithoutName(f) ==
    \E key \in DOMAIN f.node_groups :
        \E q \in 1 .. Len(f.node_groups[key]) :
            f.node_groups[key][q] >= Len(f.fate_names.names)

\* lines 120-135: fate_names is read at line 125 whether or not it was bound
Epilogue(f, source) ==
    IF ~f.fate_names.bound
    THEN /\ raised' \in UnboundErrors
         /\ pc' = "idle"
         /\ HClear
         /\ UNCHANGED uns_fate_hierarchy
    ELSE IF LeafWithoutName(f)
    THEN /\ raised' = "IndexError"
         /\ pc' = "idle"
         /\ HClear
         /\ UNCHANGED uns_fate_hierarchy
    ELSE /\ raised' = "none"
         /\ pc' = "done"
         /\ SetFrame(FinalParents(f))
         /\ uns_fate_hierarchy' =
              [uns_fate_hierarchy EXCEPT ![source] = HierarchyResult(FinalParents(f))]

\* what follows the loop test of line 70 with the local variables f
Continue(f, source) ==
    IF LoopExit(f)
    THEN Epilogue(f, source)
    ELSE /\ raised' = "none"
         /\ pc' = "loop"
         /\ SetFrame(f)
         /\ UNCHANGED uns_fate_hierarchy

\* fate_hierarchy is called: lines 51-69, and lines 120-135 when the loop
\* is not entered
HierarchyBody(selected_fates, source, selected_times) ==
    /\ budget >= Cost(selected_fates)
    /\ budget' = budget - Cost(selected_fates)
    /\ call' = [op |-> "fate_hierarchy", selected_fates |-> selected_fates,
                source |-> source, selected_times |-> selected_times]
    /\ IF ~EntryCheck(selected_fates)
       THEN /\ raised' = "ValueError"
            /\ pc' = "idle"
            /\ HClear
            /\ UNCHANGED uns_fate_hierarchy
       ELSE Continue(InitFrame(selected_fates), source)
    /\ UNCHANGED <<uns_fate_coupling, mvars>>

\* one pass through the while loop, lines 70-118, and lines 120-135 when
\* it was the last one
FateHierarchyRound ==
    /\ pc = "loop"
    /\ LET fates == TmpArg(selected_fates_tmp)
           exc == FateCouplingRaises(fates, call.source, call.selected_times)
       IN  IF exc # "none"
           THEN /\ raised' = exc
                /\ pc' = "idle"
                /\ HClear
                /\ UNCHANGED <<uns_fate_coupling, uns_fate_hierarchy>>
           ELSE LET mega_cluster_list ==
                        CouplingClusters(fates, call.source, call.selected_times)
                IN  \E Y \in SymMatrices(Len(mega_cluster_list)) :
                      LET f == RoundFrame(Frame, Y, mega_cluster_list)
                      IN  /\ uns_fate_coupling' =
                                StoreCoupling(uns_fate_coupling, call.source,
                                              f.X_coupling, mega_cluster_list)
                          /\ Continue(f, call.source)
    /\ UNCHANGED <<call, budget, mvars>>

FateCouplingCall ==
    /\ CallEnabled
    /\ budget >= MinCost
    /\ \E sf \in SelectedFatesChoices, src \in Sources, st \in TimeChoices :
            CouplingBody(sf, src, st)

FateHierarchyCall ==
    /\ CallEnabled
    /\ budget >= MinCost
    /\ \E sf \in SelectedFatesChoices, src \in Sources, st \in TimeChoices :
            HierarchyBody(sf, src, st)

Next ==
    \/ FateCouplingCall
    \/ FateHierarchyCall
    \/ FateHierarchyRound

Spec == Init /\ [][Next]_vars

\* ------------------------------------- the selection on an arbitrary matrix
\* every square matrix of dimension k with entries 0 .. MaxEntry
AnyMatrices(k) == [1 .. k -> [1 .. k -> 0 .. MaxEntry]]

\* the first round of a fate_hierarchy call on k fates, all with cells,
\* stopped after line 86: fate_coupling has stored the k x k matrix X and
\* its names, line 84 has bound fate_names, line 86 has copied X
SelectFrame(selected_fates, X, mega_cluster_list) ==
    LET f == InitFrame(selected_fates)
    IN  [f EXCEPT !.counter = 1,
                  !.node_names_history = <<f.node_names>>,
                  !.fate_names = Bound(mega_cluster_list),
                  !.X_history = <<Snapshot(X)>>]

SelectInit ==
    \E k \in 3 .. MaxDim : \E X \in AnyMatrices(k) : \E source \in StoredSources :
        LET selected_fates == ListArg(FatesList(k, TRUE))
            selected_times == [all |-> TRUE, pts |-> {}]
            mega_cluster_list == CouplingClusters(selected_fates, source, selected_times)
            f == SelectFrame(selected_fates, X, mega_cluster_list)
        IN  /\ pc = "select"
            /\ call = [op |-> "fate_hierarchy", selected_fates |-> selected_fates,
                       source |-> source, selected_times |-> selected_times]
            /\ raised = "none"
            /\ budget = MaxTotalFates - Cost(selected_fates)
            /\ uns_fate_coupling = StoreCoupling([s \in StoredSources |-> NoEntry],
                                                 source, X, mega_cluster_list)
            /\ uns_fate_hierarchy = [s \in StoredSources |-> NoEntry]
            /\ fate_N = f.fate_N
            /\ X_history = f.X_history
            /\ merged_pairs_history = f.merged_pairs_history
            /\ node_names_history = f.node_names_history
            /\ node_groups = f.node_groups
            /\ parent_map = f.parent_map
            /\ parent_map_writes = f.parent_map_writes
            /\ selected_fates_tmp = f.selected_fates_tmp
            /\ node_names = f.node_names
            /\ next_node = f.next_node
            /\ counter = f.counter
            /\ fate_names = f.fate_names
            /\ fate_prob = [c \in MapCells |-> [j \in 1 .. NumBiasFates |-> 0]]
            /\ MInit

\* lines 87-95 on that matrix: the masking changes the stored array, which
\* X_coupling aliases (line 82)
SelectStep ==
    /\ pc = "select"
    /\ pc' = "selected"
    /\ LET X_coupling == Mask(X_history[1])
       IN  /\ merged_pairs_history' =
                <<(<<SelectII(X_coupling), SelectJJ(X_coupling)>>)>>
           /\ uns_fate_coupling' =
                [uns_fate_coupling EXCEPT ![call.source].X_coupling = X_coupling]
    /\ UNCHANGED <<call, raised, budget, uns_fate_hierarchy, mvars, fate_N, X_history,
                   node_names_history, node_groups, parent_map, parent_map_writes,
                   selected_fates_tmp, node_names, next_node, counter, fate_names>>

SelectNext == SelectStep

SelectSpec == SelectInit /\ [][SelectNext]_vars

\* ------------------------------------------------ fate_map and fate_bias
\* a number p + q * 10^(-10), kept as <<p, q>>
Lin(p) == <<p, 0>>

LinAdd(x, y) == <<x[1] + y[1], x[2] + y[2]>>

\* x > t for an integer t
LinGreater(x, t) == x[1] > t \/ (x[1] = t /\ x[2] > 0)

\* the quotient n / d of two such numbers
Rat(n, d) == [num |-> n, den |-> d]

\* 0.5
Half == Rat(Lin(1), Lin(2))

\* x = y for quotients with non-zero denominators, by cross-multiplication
RatEq(x, y) ==
    /\ x.num[1] * y.den[1] = y.num[1] * x.den[1]
    /\ x.num[1] * y.den[2] + x.num[2] * y.den[1]
         = y.num[1] * x.den[2] + y.num[2] * x.den[1]
    /\ x.num[2] * y.den[2] = y.num[2] * x.den[2]

\* pseudo_count * m after lines 495-496: 0 stands for 10 ** (-10)
AddCount(pseudo_count, m) ==
    IF pseudo_count = 0 THEN <<0, m>> ELSE <<pseudo_count * m, 0>>

CellIdT1(map_backward) == IF map_backward THEN Tmap_cell_id_t1 ELSE Tmap_cell_id_t2

\* a vector over all cells: `default` everywhere, then v[cell_ids[mask]] = values[mask]
TempMap(default, cell_ids, mask, values) ==
    [c \in 1 .. NumCells |->
        IF \E p \in 1 .. Len(cell_ids) : mask[p] /\ cell_ids[p] = c - 1
        THEN values[CHOOSE p \in 1 .. Len(cell_ids) : mask[p] /\ cell_ids[p] = c - 1]
        ELSE default]

AllOf(cell_ids) == [p \in 1 .. Len(cell_ids) |-> TRUE]

\* the probability of cell c towards the j-th mega-cluster
ProbOf(c, j) == IF j \in DOMAIN fate_prob[c] THEN fate_prob[c][j] ELSE 0

\* tl_util.compute_fate_probability_map: the matrix fate_map and fate_entropy
FateMapMatrix(cell_ids, k) ==
    [p \in 1 .. Len(cell_ids) |-> [j \in 1 .. k |-> ProbOf(cell_ids[p], j)]]

NaNPotency == [kind |-> "nan", row |-> <<>>]

FateEntropy(P, fate_count) ==
    [p \in 1 .. Len(P) |->
        [kind |-> IF fate_count THEN "count" ELSE "entropy", row |-> P[p]]]

\* lines 360-363: one column of adata.obs per mega-cluster
FateMapObs(obs, source, mega_cluster_list, cell_ids, P) ==
    LET newkeys == {<<source, mega_cluster_list[j]>> : j \in 1 .. Len(mega_cluster_list)}
        \* a fate that occurs twice is written twice: the last column stays
        Col(key) == CHOOSE j \in 1 .. Len(mega_cluster_list) :
                        /\ mega_cluster_list[j] = key[2]
                        /\ \A k \in (j + 1) .. Len(mega_cluster_list) :
                               mega_cluster_list[k] # key[2]
    IN  [key \in (DOMAIN obs) \cup newkeys |->
            IF key \in newkeys
            THEN TempMap(NaN, cell_ids, AllOf(cell_ids),
                         [p \in 1 .. Len(cell_ids) |-> P[p][Col(key)]])
            ELSE obs[key]]

Params(map_backward, method) == [map_backward |-> map_backward, method |-> method]

\* the fields fate_map reads and writes
MapState ==
    [obs_fate_map |-> obs_fate_map, uns_fate_map |-> uns_fate_map,
     uns_fate_potency |-> uns_fate_potency]

\* fate_map, lines 324-373: the exception it ends with and the fields it leaves
FateMapResult(a, selected_fates, source, map_backward, method, fate_count) ==
    IF source \notin AvailableMap
    THEN [raised |-> "ValueError", state |-> a]
    ELSE LET cell_id_t1 == CellIdT1(map_backward)
             mega_cluster_list == analyze_selected_fates(StateInfo, selected_fates)
             P == FateMapMatrix(cell_id_t1, Len(mega_cluster_list))
         IN  IF Len(mega_cluster_list) = 0
             THEN [raised |-> "none", state |-> a]
             ELSE [raised |-> "none",
                   state |->
                     [obs_fate_map |->
                        FateMapObs(a.obs_fate_map, source, mega_cluster_list, cell_id_t1, P),
                      uns_fate_map |->
                        (source :> Params(map_backward, method)) @@ a.uns_fate_map,
                      uns_fate_potency |->
                        [present |-> TRUE,
                         value |-> TempMap(NaNPotency, cell_id_t1, AllOf(cell_id_t1),
                                           FateEntropy(P, fate_count))]]]

\* variant: only an empty selection is rejected
BiasRejects_OnlyEmpty(mega_cluster_list) == Len(mega_cluster_list) = 0

\* line 484
BiasRejects(mega_cluster_list) == Len(mega_cluster_list) # NumBiasFates

\* line 514
ValidIdx(tot_prob, sum_fate_prob_thresh) ==
    [p \in 1 .. Len(tot_prob) |-> LinGreater(tot_prob[p], sum_fate_prob_thresh)]

\* lines 495-518: the vector stored by fate_bias, read from the columns obs
BiasVector(obs, source, mega_cluster_list, map_backward, sum_fate_prob_thresh, pseudo_count) ==
    LET cell_id_t1 == CellIdT1(map_backward)
        n == Len(cell_id_t1)
        raw_1 == [p \in 1 .. n |-> obs[<<source, mega_cluster_list[1]>>][cell_id_t1[p] + 1]]
        raw_2 == [p \in 1 .. n |-> obs[<<source, mega_cluster_list[2]>>][cell_id_t1[p] + 1]]
        add_count == AddCount(pseudo_count, SetMax(Elems(raw_1) \cup Elems(raw_2)))
        fate_vector_1 == [p \in 1 .. n |-> LinAdd(Lin(raw_1[p]), add_count)]
        fate_vector_2 == [p \in 1 .. n |-> LinAdd(Lin(raw_2[p]), add_count)]
        tot_prob == [p \in 1 .. n |-> LinAdd(fate_vector_1[p], fate_vector_2[p])]
        valid_idx == ValidIdx(tot_prob, sum_fate_prob_thresh)
        fate_bias_vector == [p \in 1 .. n |-> Rat(fate_vector_1[p], tot_prob[p])]
    IN  TempMap(Half, cell_id_t1, valid_idx, fate_bias_vector)

\* the record of a call: an argument the call ended without using is
\* recorded with its default value
MapCall(op, selected_fates, source, map_backward, method, thresh, pseudo_count) ==
    [op |-> op, selected_fates |-> selected_fates, source |-> source,
     map_backward |-> map_backward, method |-> method,
     sum_fate_prob_thresh |-> thresh, pseudo_count |-> pseudo_count]

MapCallAtEntry(op, selected_fates) ==
    MapCall(op, selected_fates, "transition_map", TRUE, "norm-sum", 0, 0)

MapCallAtSource(op, selected_fates, source) ==
    MapCall(op, selected_fates, source, TRUE, "norm-sum", 0, 0)

SetMapState(a) ==
    /\ obs_fate_map' = a.obs_fate_map
    /\ uns_fate_map' = a.uns_fate_map
    /\ uns_fate_potency' = a.uns_fate_potency

\* the fate selections handed to fate_map and fate_bias
MapFatesChoices(n) == {ListArg(FatesList(i, kn)) : i \in 0 .. n, kn \in BOOLEAN}

MapInit ==
    /\ pc = "idle"
    /\ call = MapCall("none", NoneArg, "transition_map", TRUE, "norm-sum", 0, 0)
    /\ raised = "none"
    /\ budget = MaxCalls
    /\ uns_fate_coupling = [s \in StoredSources |-> NoEntry]
    /\ uns_fate_hierarchy = [s \in StoredSources |-> NoEntry]
    /\ HInit
    /\ fate_prob \in [MapCells -> [1 .. NumBiasFates -> 0 .. MaxP]]
    /\ MInit

\* fate_map called by the user
FateMapCall ==
    /\ budget >= 1
    /\ budget' = budget - 1
    /\ \E selected_fates \in MapFatesChoices(NumBiasFates), source \in MapSources,
          map_backward \in BOOLEAN, method \in Methods, fate_count \in BOOLEAN :
          LET r == FateMapResult(MapState, selected_fates, source, map_backward,
                                 method, fate_count)
          IN  /\ call' = IF r.raised # "none"
                         THEN MapCallAtSource("fate_map", NoneArg, source)
                         ELSE MapCall("fate_map", selected_fates, source, map_backward,
                                      method, 0, 0)
              /\ raised' = r.raised
              /\ SetMapState(r.state)
    /\ UNCHANGED <<pc, cvars, hvars, fate_prob, obs_fate_bias, uns_fate_bias, tvars>>

\* fate_bias, lines 476-524
FateBiasCall ==
    /\ budget >= 1
    /\ budget' = budget - 1
    /\ \E selected_fates \in MapFatesChoices(NumBiasFates + 1), source \in MapSources,
          map_backward \in BOOLEAN, method \in Methods,
          sum_fate_prob_thresh \in 0 .. MaxThresh, pseudo_count \in 0 .. MaxPseudo :
          LET mega_cluster_list == analyze_selected_fates(StateInfo, selected_fates)
              r == FateMapResult(MapState, selected_fates, source, map_backward,
                                 method, FALSE)
          IN  /\ call' = IF BiasRejects(mega_cluster_list)
                         THEN MapCallAtEntry("fate_bias", selected_fates)
                         ELSE IF r.raised # "none"
                         THEN MapCallAtSource("fate_bias", selected_fates, source)
                         ELSE MapCall("fate_bias", selected_fates, source, map_backward,
                                      method, sum_fate_prob_thresh, pseudo_count)
              /\ IF BiasRejects(mega_cluster_list)
                 THEN /\ raised' = "ValueError"
                      /\ UNCHANGED <<obs_fate_map, uns_fate_map, uns_fate_potency,
                                     obs_fate_bias, uns_fate_bias>>
                 ELSE IF r.raised # "none"
                 THEN /\ raised' = r.raised
                      /\ SetMapState(r.state)
                      /\ UNCHANGED <<obs_fate_bias, uns_fate_bias>>
                 ELSE IF Len(mega_cluster_list) < 2
                           \/ <<source, mega_cluster_list[1]>> \notin DOMAIN r.state.obs_fate_map
                 THEN \* mega_cluster_list[1] or the column does not exist
                      /\ raised' = "LookupError"
                      /\ SetMapState(r.state)
                      /\ UNCHANGED <<obs_fate_bias, uns_fate_bias>>
                 ELSE /\ raised' = "none"
                      /\ SetMapState(r.state)
                      /\ obs_fate_bias' =
                           (<<source, mega_cluster_list[1], mega_cluster_list[2]>> :>
                              BiasVector(r.state.obs_fate_map, source, mega_cluster_list,
                                         map_backward, sum_fate_prob_thresh, pseudo_count))
                           @@ obs_fate_bias
                      /\ uns_fate_bias' =
                           (source :> Params(map_backward, method)) @@ uns_fate_bias
    /\ UNCHANGED <<pc, cvars, hvars, fate_prob, tvars>>

MapNext ==
    \/ FateMapCall
    \/ FateBiasCall

MapSpec == MapInit /\ [][MapNext]_vars

\* ------------------------------------------------------------ fate_potency
\* fate_potency, lines 391-404: fate_map, then the copy of adata.uns["fate_potency"]
FatePotencyCall ==
    /\ budget >= 1
    /\ budget' = budget - 1
    /\ \E selected_fates \in MapFatesChoices(NumBiasFates), source \in MapSources,
          map_backward \in BOOLEAN, method \in Methods, fate_count \in BOOLEAN :
          LET r == FateMapResult(MapState, selected_fates, source, map_backward,
                                 method, fate_count)
          IN  /\ call' = IF r.raised # "none"
                         THEN MapCallAtSource("fate_potency", NoneArg, source)
                         ELSE MapCall("fate_potency", selected_fates, source,
                                      map_backward, method, 0, 0)
              /\ SetMapState(r.state)
              /\ IF r.raised # "none"
                 THEN /\ raised' = r.raised
                      /\ UNCHANGED <<obs_fate_potency, uns_fate_potency_src>>
                 ELSE IF ~r.state.uns_fate_potency.present
                 THEN \* line 399 reads a key that no call has written
                      /\ raised' = "KeyError"
                      /\ UNCHANGED <<obs_fate_potency, uns_fate_potency_src>>
                 ELSE /\ raised' = "none"
                      /\ obs_fate_potency' =
                           (source :> r.state.uns_fate_potency.value) @@ obs_fate_potency
                      /\ uns_fate_potency_src' =
                           (source :> Params(map_backward, method)) @@ uns_fate_potency_src
    /\ UNCHANGED <<pc, cvars, hvars, fate_prob, obs_fate_bias, uns_fate_bias,
                   obs_cell_group, obs_traj>>

PotencyNext ==
    \/ FateMapCall
    \/ FatePotencyCall

PotencySpec == MapInit /\ [][PotencyNext]_vars

\* ----------------------------------------------- differentiation_trajectory
LinLess(x, y) == x[1] < y[1] \/ (x[1] = y[1] /\ x[2] < y[2])

LinScale(k, x) == <<k * x[1], k * x[2]>>

\* a bias threshold t stands for t / 2: q > t / 2 and q < t / 2 for a quotient q
\* with a positive denominator
BiasAbove(q, t) == LinLess(LinScale(t, q.den), LinScale(2, q.num))

BiasBelow(q, t) == LinLess(LinScale(2, q.num), LinScale(t, q.den))

\* valid_fate_list: the labels of each mega-cluster that occur in state_info
ValidFateList(mega_cluster_list) ==
    LET Present(l) == l \in Elems(StateInfo)
    IN  [j \in 1 .. Len(mega_cluster_list) |-> SelectSeq(mega_cluster_list[j], Present)]

\* sel_index_list: for each mega-cluster the membership array over all cells
SelIndexList(mega_cluster_list) ==
    [j \in 1 .. Len(mega_cluster_list) |->
        [c \in 1 .. NumCells |-> StateInfo[c] \in Elems(mega_cluster_list[j])]]

\* astype(int)
AsInt(b) == IF b THEN 1 ELSE 0

\* lines 768-770
CombineTraj(group_idx_full, selected_idx) ==
    [c \in 1 .. NumCells |-> AsInt(group_idx_full[c]) + AsInt(selected_idx[c])]

\* lines 676-708: the arrays stored as cell_group_A and cell_group_B
CellGroups(cell_id_t1, sp_idx, P, valid_fate_list, bias_threshold_A, bias_threshold_B, sum_fate_prob_thresh, pseudo_count, avoid_target_states) ==
    LET n == Len(cell_id_t1)
        add_count == AddCount(pseudo_count,
                              SetMax(UNION {Elems(P[p]) : p \in 1 .. n}))
        potential_vector_temp ==
            [p \in 1 .. n |-> [j \in 1 .. NumBiasFates |-> LinAdd(Lin(P[p][j]), add_count)]]
        valid_idx == [p \in 1 .. n |-> P[p][1] + P[p][2] > sum_fate_prob_thresh]
        diff == [p \in 1 .. n |-> potential_vector_temp[p][1]]
        tot == [p \in 1 .. n |->
                   LinAdd(potential_vector_temp[p][1], potential_vector_temp[p][2])]
        vector_array == [p \in 1 .. n |-> Rat(diff[p], tot[p])]
        state_annote_t1 == [p \in 1 .. n |-> StateInfo[cell_id_t1[p] + 1]]
        Avoided(p, j) ==
            avoid_target_states /\ state_annote_t1[p] \in Elems(valid_fate_list[j])
        idx_for_group_A ==
            [p \in 1 .. n |-> /\ valid_idx[p]
                              /\ BiasAbove(vector_array[p], bias_threshold_A)
                              /\ ~Avoided(p, 1)]
        idx_for_group_B ==
            [p \in 1 .. n |-> /\ valid_idx[p]
                              /\ BiasBelow(vector_array[p], bias_threshold_B)
                              /\ ~Avoided(p, 2)]
    IN  [present |-> TRUE,
         A |-> TempMap(FALSE, cell_id_t1, sp_idx, idx_for_group_A),
         B |-> TempMap(FALSE, cell_id_t1, sp_idx, idx_for_group_B)]

\* lines 764-771
StoreTraj(obs, mega_cluster_list, groups) ==
    LET sel_index_list == SelIndexList(mega_cluster_list)
        temp_list == <<groups.A, groups.B>>
        newkeys == {mega_cluster_list[j] : j \in 1 .. Len(mega_cluster_list)}
        Last(key) == CHOOSE j \in 1 .. Len(mega_cluster_list) :
                        /\ mega_cluster_list[j] = key
                        /\ \A k \in (j + 1) .. Len(mega_cluster_list) :
                               mega_cluster_list[k] # key
    IN  [key \in (DOMAIN obs) \cup newkeys |->
            IF key \in newkeys
            THEN CombineTraj(temp_list[Last(key)], sel_index_list[Last(key)])
            ELSE obs[key]]

\* the mask argument: None, or an array of 0 and 1
NoMask == [kind |-> "none", vals |-> <<>>]

ArrayMask(vals) == [kind |-> "array", vals |-> vals]

\* the masks handed to differentiation_trajectory: None, an array of the
\* wrong length, an array over all cells that is 0 on the cells of
\* Tmap_cell_id_t1 only, one that is 0 on every cell of the map
MaskChoices ==
    {NoMask, ArrayMask(<<0>>)}
    \cup {ArrayMask([c \in 1 .. NumCells |-> IF (c - 1) \in S THEN 0 ELSE 1]) :
             S \in {Elems(Tmap_cell_id_t1), MapCells}}

\* lines 645-652: a mask of the length of adata restricts the selection to
\* its nonzero cells; a mask of another length is ignored
ApplyMask(sp_idx, mask, cell_id_t1) ==
    IF mask.kind = "none" THEN sp_idx
    ELSE IF Len(mask.vals) = NumCells
    THEN [p \in 1 .. Len(sp_idx) |-> sp_idx[p] /\ (mask.vals[cell_id_t1[p] + 1] # 0)]
    ELSE sp_idx

\* the record of a differentiation_trajectory call: the fates, the map and
\* its direction, avoid_target_states, and the line where the call ended
\* (that of the logged error, of the exception or of the last statement)
TrajCall(selected_fates, used_Tmap, map_backward, avoid_target_states, exit) ==
    [op |-> "differentiation_trajectory", selected_fates |-> selected_fates,
     source |-> used_Tmap, map_backward |-> map_backward, method |-> "norm-sum",
     avoid_target_states |-> avoid_target_states, exit |-> exit]

\* a call that ended before line 676: the arguments it has not read are
\* recorded with fixed values
TrajCallAborted(selected_fates, used_Tmap, map_backward, exit) ==
    TrajCall(selected_fates, used_Tmap, map_backward, FALSE, exit)

\* lines 712-717: with plot_ancestor the call reads adata.obsm["X_emb"]
\* (KeyError without an embedding) and then calls start_subplot_figure, a
\* name this module neither defines nor imports
PlotRaises(plot_ancestor, X_emb) ==
    IF ~plot_ancestor THEN "none"
    ELSE IF ~X_emb THEN "KeyError" ELSE "NameError"

PlotExit(plot_ancestor, X_emb) ==
    IF ~plot_ancestor THEN "771"
    ELSE IF ~X_emb THEN "713" ELSE "717"

\* lines 676-771 of a call that got past the check of line 671: the cell
\* groups are written, then the plot raises or the trajectories are stored
TrajectoryBody(selected_fates, used_Tmap, map_backward, mega_cluster_list, sp_idx) ==
    \E bias_threshold_A \in 0 .. MaxBias, bias_threshold_B \in 0 .. MaxBias,
       sum_fate_prob_thresh \in 0 .. MaxThresh, pseudo_count \in 0 .. MaxPseudo,
       avoid_target_states \in BOOLEAN, plot_ancestor \in BOOLEAN,
       X_emb \in BOOLEAN :
       LET cell_id_t1 == CellIdT1(map_backward)
           P == FateMapMatrix(cell_id_t1, Len(mega_cluster_list))
           groups == CellGroups(cell_id_t1, sp_idx, P,
                                ValidFateList(mega_cluster_list),
                                bias_threshold_A, bias_threshold_B,
                                sum_fate_prob_thresh, pseudo_count,
                                avoid_target_states)
       IN  \* the embedding is read only with plot_ancestor
           /\ plot_ancestor \/ ~X_emb
           /\ call' = TrajCall(selected_fates, used_Tmap, map_backward,
                               avoid_target_states, PlotExit(plot_ancestor, X_emb))
           /\ raised' = PlotRaises(plot_ancestor, X_emb)
           /\ obs_cell_group' = groups
           /\ obs_traj' = IF plot_ancestor THEN obs_traj
                          ELSE StoreTraj(obs_traj, mega_cluster_list, groups)

\* differentiation_trajectory, lines 614-771
DifferentiationTrajectoryCall ==
    /\ budget >= 1
    /\ budget' = budget - 1
    /\ \E selected_fates \in {NoneArg} \cup MapFatesChoices(NumBiasFates + 1),
          used_Tmap \in MapSources :
          IF used_Tmap \notin AvailableMap
          THEN \* line 622: logged, nothing raised
               /\ call' = TrajCallAborted(NoneArg, used_Tmap, TRUE, "622")
               /\ raised' = "none"
               /\ UNCHANGED <<obs_cell_group, obs_traj>>
          ELSE IF selected_fates = NoneArg
          THEN \* line 636: len(None)
               /\ call' = TrajCallAborted(NoneArg, used_Tmap, TRUE, "636")
               /\ raised' = "TypeError"
               /\ UNCHANGED <<obs_cell_group, obs_traj>>
          ELSE IF Len(selected_fates.items) # NumBiasFates
          THEN \* line 637: logged, nothing raised
               /\ call' = TrajCallAborted(selected_fates, used_Tmap, TRUE, "637")
               /\ raised' = "none"
               /\ UNCHANGED <<obs_cell_group, obs_traj>>
          ELSE \E map_backward \in BOOLEAN, selected_times \in TimeChoices,
                  mask \in MaskChoices :
               LET cell_id_t1 == CellIdT1(map_backward)
                   sp_idx == ApplyMask(selecting_cells_by_time_points(
                                           TimeInfoOf(cell_id_t1), selected_times),
                                       mask, cell_id_t1)
                   mega_cluster_list == analyze_selected_fates(StateInfo, selected_fates)
               IN  IF Len(mega_cluster_list) # NumBiasFates \/ NumSelected(sp_idx) = 0
                   THEN \* line 672: logged, nothing raised
                        /\ call' = TrajCallAborted(selected_fates, used_Tmap,
                                                   map_backward, "672")
                        /\ raised' = "none"
                        /\ UNCHANGED <<obs_cell_group, obs_traj>>
                   ELSE TrajectoryBody(selected_fates, used_Tmap, map_backward,
                                       mega_cluster_list, sp_idx)
    /\ UNCHANGED <<pc, cvars, hvars, fate_prob, obs_fate_map, uns_fate_map,
                   uns_fate_potency, obs_fate_bias, uns_fate_bias,
                   obs_fate_potency, uns_fate_potency_src>>

TrajNext == DifferentiationTrajectoryCall

TrajSpec == MapInit /\ [][TrajNext]_vars

\* ------------------------------------------------------------ properties
Leaves == Range0(fate_N)

\* a completed fate_hierarchy call (it completes only with 3 or more fates)
Completed == pc = "done" /\ fate_N >= 3

RECURSIVE Flatten(_)
Flatten(ss) == IF ss = <<>> THEN <<>> ELSE Head(ss) \o Flatten(Tail(ss))

ActiveGroups == [p \in 1 .. Len(node_names) |-> node_groups[node_names[p]]]

Children(pm, m) == {k \in DOMAIN pm : pm[k] = m}

Parents(pm) == {pm[k] : k \in DOMAIN pm}

\* the node reached from k by following the parent map at most n times;
\* -1 when a key is still reached after n steps
RECURSIVE Climb(_, _, _)
Climb(pm, k, n) ==
    IF k \notin DOMAIN pm THEN k
    ELSE IF n = 0 THEN -1 ELSE Climb(pm, pm[k], n - 1)

Symmetric(X) == \A i, j \in 1 .. Len(X) : X[i][j] = X[j][i]

UpperMax(Y) == SetMax({Y[pr[1] + 1][pr[2] + 1] : pr \in UpperPairs(Len(Y))})

\* C1: every assignment to parent_map creates a new key (no key is assigned
\* twice), and when fate_hierarchy completes on N >= 3 fates the keys of
\* parent_map are exactly 0 .. 2N-3, the root id 2N-2 not being a key.
C1_ParentMapKeys ==
    Completed =>
        /\ parent_map_writes = Cardinality(DOMAIN parent_map)
        /\ DOMAIN parent_map = 0 .. (2 * fate_N - 3)
        /\ (2 * fate_N - 2) \notin DOMAIN parent_map
        /\ uns_fate_hierarchy[call.source].parent_map = parent_map

C1_Witness ==
    /\ Completed
    /\ fate_N >= 4
    /\ parent_map_writes = 2 * fate_N - 2

\* C2: at the start of every round and on completion the leaf groups of the
\* active nodes partition the leaves 0 .. N-1; on completion the active nodes
\* are the two children of the root; the group of every internal node is the
\* duplicate-free concatenation of the groups of its two children.
C2_GroupsPartition ==
    (pc \in {"loop", "done"}) =>
        /\ NoDup(Flatten(ActiveGroups))
        /\ Elems(Flatten(ActiveGroups)) = Leaves
        /\ pc = "done" =>
             /\ Len(node_names) = 2
             /\ Children(parent_map, next_node) = Elems(node_names)
        /\ \A m \in DOMAIN node_groups \ Leaves :
             /\ NoDup(node_groups[m])
             /\ Cardinality(Children(parent_map, m)) = 2
             /\ \E c1, c2 \in Children(parent_map, m) :
                    c1 # c2 /\ node_groups[m] = node_groups[c1] \o node_groups[c2]

\* C3: on completion with N >= 3 fates parent_map is a bifurcating tree with
\* one root: one node is a parent without being a key, every leaf reaches it
\* along parent_map (no cycle), and every parent has exactly two children.
C3_BifurcatingTree ==
    Completed =>
        LET pm == uns_fate_hierarchy[call.source].parent_map
            roots == Parents(pm) \ DOMAIN pm
        IN  /\ pm = parent_map
            /\ Cardinality(roots) = 1
            /\ \A l \in Leaves : Climb(pm, l, Cardinality(DOMAIN pm)) \in roots
            /\ \A m \in Parents(pm) : Cardinality(Children(pm, m)) = 2

C3_Witness ==
    /\ Completed
    /\ fate_N >= 4
    /\ \E l \in Leaves : parent_map[l] = 2 * fate_N - 2
    /\ \E l \in Leaves : parent_map[parent_map[parent_map[l]]] = 2 * fate_N - 2

\* C4: in every round the merged pair is a highest-coupling pair: the matrix
\* entry at the selected positions (ii, jj) is the maximum over all i < j.
C4_MergedPairIsMax ==
    \A r \in 1 .. Len(merged_pairs_history) :
        LET Y == X_history[r]
            ii == merged_pairs_history[r][1]
            jj == merged_pairs_history[r][2]
        IN  Len(Y) >= 2 => Y[ii + 1][jj + 1] = UpperMax(Y)

\* the last call was fate_hierarchy with n fate clusters and is over
HierarchyCallOver(n) ==
    /\ call.op = "fate_hierarchy"
    /\ call.selected_fates.kind = "list"
    /\ Len(call.selected_fates.items) = n
    /\ CallEnabled

\* C5: fate_hierarchy called with fewer than 2 fate clusters (not a list, an
\* empty list, a list of one element) ends with ValueError, nothing written.
C5_FewerThanTwoRaises ==
    (/\ call.op = "fate_hierarchy"
     /\ CallEnabled
     /\ call.selected_fates.kind = "list" => Len(call.selected_fates.items) < 2)
    => /\ raised = "ValueError"
       /\ \A s \in StoredSources : ~uns_fate_hierarchy[s].present

\* C6: fate_hierarchy called with exactly 2 fates completes normally with
\* parent_map = {0: 2, 1: 2}, no history, and the result stored in adata.uns.
C6_TwoFatesComplete ==
    HierarchyCallOver(2) =>
        /\ raised = "none"
        /\ pc = "done"
        /\ parent_map = (0 :> 2) @@ (1 :> 2)
        /\ DOMAIN node_groups = {0, 1}
        /\ X_history = <<>>

\* C7: whenever no call is running, every stored coupling matrix
\* adata.uns['fate_coupling_{source}']['X_coupling'] is symmetric.
C7_StoredCouplingSymmetric ==
    CallEnabled =>
        \A s \in StoredSources :
            uns_fate_coupling[s].present => Symmetric(uns_fate_coupling[s].X_coupling)

\* the three failure conditions of fate_coupling as the claim lists them
BadCoupling(selected_fates, source, selected_times) ==
    \/ source \notin (AvailableMap \cup {"X_clone"})
    \/ NumSelected(CouplingSpIdx(source, selected_times)) = 0
    \/ CouplingClusters(selected_fates, source, selected_times) = <<>>

\* C10: fate_coupling raises ValueError on an unavailable source, on a time
\* selection without cells and on a selection without mega-clusters, leaving
\* adata.uns['fate_coupling_{source}'] as it was; inside fate_hierarchy the
\* error ends the call and no fate_hierarchy entry is written or changed.
C10_CouplingFailureWritesNothing ==
    [][/\ (/\ budget' < budget
           /\ call'.op = "fate_coupling"
           /\ BadCoupling(call'.selected_fates, call'.source, call'.selected_times))
          => /\ raised' = "ValueError"
             /\ uns_fate_coupling' = uns_fate_coupling
             /\ uns_fate_hierarchy' = uns_fate_hierarchy
       /\ (/\ pc = "loop"
           /\ BadCoupling(TmpArg(selected_fates_tmp), call.source, call.selected_times))
          => /\ raised' = "ValueError"
             /\ pc' = "idle"
             /\ uns_fate_coupling' = uns_fate_coupling
             /\ uns_fate_hierarchy' = uns_fate_hierarchy]_vars

C10_Witness ==
    /\ raised = "ValueError"
    /\ pc = "idle"
    /\ call.op = "fate_hierarchy"
    /\ Len(call.selected_fates.items) >= 3
    /\ call.source \in StoredSources
    /\ uns_fate_coupling[call.source].present
    /\ uns_fate_hierarchy[call.source].present

\* C8: fate_bias whose selection resolves to a number of mega-clusters other
\* than 2 raises ValueError and leaves every field of adata.obs and adata.uns
\* as it was before the call (fate_map has not run).
C8_BiasRejectsWithoutWriting ==
    [][(/\ budget' < budget
        /\ call'.op = "fate_bias"
        /\ Len(analyze_selected_fates(StateInfo, call'.selected_fates)) # 2)
       => /\ raised' = "ValueError"
          /\ obs_fate_map' = obs_fate_map
          /\ uns_fate_map' = uns_fate_map
          /\ uns_fate_potency' = uns_fate_potency
          /\ obs_fate_bias' = obs_fate_bias
          /\ uns_fate_bias' = uns_fate_bias
          /\ uns_fate_coupling' = uns_fate_coupling
          /\ uns_fate_hierarchy' = uns_fate_hierarchy]_vars

C8_Witness ==
    /\ call.op = "fate_bias"
    /\ raised = "ValueError"
    /\ Len(analyze_selected_fates(StateInfo, call.selected_fates)) = 3
    /\ DOMAIN obs_fate_map # {}
    /\ DOMAIN obs_fate_bias # {}
    /\ uns_fate_potency.present

\* the largest probability of the fate map of the cells cell_ids
MaxProb(cell_ids) ==
    SetMax({fate_prob[cell_ids[p]][j] : p \in 1 .. Len(cell_ids), j \in 1 .. NumBiasFates})

\* C9: in the vector written by fate_bias a cell of the fate map's subset has
\* 0.5 when its raw mass P_A + P_B is at or below sum_fate_prob_thresh and
\* (P_A + c0) / (P_A + P_B + 2 c0) otherwise, c0 = a * max(P) (a = 10^(-10)
\* for a pseudo-count of 0); every cell outside the subset has 0.5.
C9_BiasVectorValues ==
    (call.op = "fate_bias" /\ raised = "none") =>
        LET mega_cluster_list == analyze_selected_fates(StateInfo, call.selected_fates)
            vec == obs_fate_bias[<<call.source, mega_cluster_list[1], mega_cluster_list[2]>>]
            subset == CellIdT1(call.map_backward)
            c0 == AddCount(call.pseudo_count, MaxProb(subset))
        IN  \A c \in 0 .. (NumCells - 1) :
                IF c \in Elems(subset)
                THEN LET PA == fate_prob[c][1]
                         PB == fate_prob[c][2]
                     IN  IF PA + PB <= call.sum_fate_prob_thresh
                         THEN RatEq(vec[c + 1], Half)
                         ELSE RatEq(vec[c + 1],
                                    Rat(LinAdd(Lin(PA), c0),
                                        LinAdd(Lin(PA + PB), LinAdd(c0, c0))))
                ELSE RatEq(vec[c + 1], Half)


\* the selection of the last call resolved to no mega-cluster
EmptySelection ==
    /\ call.selected_fates # NoneArg
    /\ Len(analyze_selected_fates(StateInfo, call.selected_fates)) = 0

\* C11: a fate_map or fate_potency call whose fate selection resolves to zero
\* mega-clusters returns without raising and leaves every field of adata.obs
\* and adata.uns as it was, whatever earlier calls have stored
C11_EmptySelectionWritesNothing ==
    [][(call'.op \in {"fate_map", "fate_potency"} /\ EmptySelection')
         => /\ raised' = "none"
            /\ UNCHANGED <<obs_fate_map, uns_fate_map, uns_fate_potency,
                           obs_fate_bias, uns_fate_bias, obs_fate_potency,
                           uns_fate_potency_src, obs_cell_group, obs_traj, cvars>>]_vars

\* the entry at positions (i, j), i < j, is larger than every other entry
\* above the diagonal
StrictMaxAt(Y, i, j) ==
    \A pr \in UpperPairs(Len(Y)) \ {<<i, j>>} : Y[pr[1] + 1][pr[2] + 1] < Y[i + 1][j + 1]

\* the 4-leaf example: leaves 1 and 3 couple most in round 1, leaf 0 and the
\* new node 4 (positions 0 and 1 of the active list) in round 2
FourLeafExample ==
    /\ Completed
    /\ fate_N = 4
    /\ StrictMaxAt(X_history[1], 1, 3)
    /\ StrictMaxAt(X_history[2], 0, 1)

\* C12: for 4 leaf fates whose round-1 coupling is maximal for leaves (1, 3)
\* and whose round-2 coupling is maximal for leaf 0 with the new node 4, the
\* result is parent_map {1: 4, 3: 4, 0: 5, 4: 5, 5: 6, 2: 6} and node groups
\* {0: [0], 1: [1], 2: [2], 3: [3], 4: [1, 3], 5: [0, 1, 3]}; the root 6 has
\* no node group and every leaf reaches it in at most 3 parent steps.
C12_FourLeafExample ==
    FourLeafExample =>
        LET stored == uns_fate_hierarchy[call.source]
            pm == stored.parent_map
        IN  /\ pm = (0 :> 5) @@ (1 :> 4) @@ (2 :> 6) @@ (3 :> 4) @@ (4 :> 5) @@ (5 :> 6)
            /\ node_groups = (0 :> <<0>>) @@ (1 :> <<1>>) @@ (2 :> <<2>>) @@ (3 :> <<3>>)
                               @@ (4 :> <<1, 3>>) @@ (5 :> <<0, 1, 3>>)
            /\ DOMAIN stored.node_mapping = DOMAIN node_groups
            /\ \A key \in DOMAIN node_groups :
                   stored.node_mapping[key] =
                     [p \in 1 .. Len(node_groups[key]) |->
                        At(stored.fate_names, node_groups[key][p])]
            /\ 6 \notin DOMAIN node_groups
            /\ \A l \in Leaves : Climb(pm, l, 3) = 6

C12_Witness ==
    /\ FourLeafExample
    /\ node_names = <<5, 2>>
    /\ merged_pairs_history = <<(<<1, 3>>), (<<0, 1>>)>>

\* the last call was a differentiation_trajectory call that stored results
TrajStored ==
    /\ call.op = "differentiation_trajectory"
    /\ raised = "none"
    /\ call.exit = "771"

\* C13: after a differentiation_trajectory call that stores results, every
\* entry of adata.obs[f"traj_{fate_name}"] is 0 or 1, for every cell and both
\* fates, for every setting of avoid_target_states, the thresholds and the
\* time selection.
C13_TrajIsBinary ==
    TrajStored =>
        \A key \in DOMAIN obs_traj : \A c \in 1 .. NumCells : obs_traj[key][c] \in {0, 1}

\* the original label list of leaf l, as lines 61-65 build it
OriginalLabels(l) == call.selected_fates.items[l + 1].labels

\* the label lists of the leaves of a group, concatenated in the group's order
GroupLabels(group) == Flatten([q \in 1 .. Len(group) |-> OriginalLabels(group[q])])

\* the working fate list and the active node list denote the same groups,
\* position by position, and the rows of the matrix fate_coupling returns
\* for the working list are its groups, one by one
Aligned ==
    /\ Len(selected_fates_tmp) = Len(node_names)
    /\ \A p \in 1 .. Len(node_names) :
           selected_fates_tmp[p] = GroupLabels(node_groups[node_names[p]])
    /\ LET fates == TmpArg(selected_fates_tmp)
       IN  FateCouplingRaises(fates, call.source, call.selected_times) = "none"
           => CouplingClusters(fates, call.source, call.selected_times)
                = selected_fates_tmp

\* the round just taken put the new node at the smaller merged position and
\* left the other nodes in their order
MergedInPlace ==
    LET pair == merged_pairs_history'[Len(merged_pairs_history')]
        ix == Min2(pair[1], pair[2])
        Unmerged(n) == n \notin {At(node_names, pair[1]), At(node_names, pair[2])}
        Old(n) == n # next_node
    IN  /\ At(node_names', ix) = next_node
        /\ SelectSeq(node_names', Old) = SelectSeq(node_names, Unmerged)
        /\ Len(node_names') = Len(node_names) - 1

\* C14: at the start of every round the working fate-group list and the
\* active node list are aligned (same length; the group at position p is the
\* in-order concatenation of the original label lists of the leaves of
\* node_groups[node_names[p]]), and a round puts the merged node at the
\* position of the smaller merged index, the unmerged nodes keeping their
\* relative order.
C14_ListsAligned ==
    [][/\ pc' = "loop" => Aligned'
       /\ (pc = "loop" /\ pc' \in {"loop", "done"}) => MergedInPlace]_vars

\* the list `after` is the list `before` with one entry appended
Appended(before, after) ==
    /\ Len(after) = Len(before) + 1
    /\ SubSeq(after, 1, Len(before)) = before

\* a round appends one entry to each history list and alters no earlier one;
\* the new entry is the matrix fate_coupling returned (symmetric, and the
\* array left in adata.uns is its masked form), the merged positions within
\* the round's active list, and the active list the round started with
HistoryStep ==
    LET X == X_history'[Len(X_history')]
        pair == merged_pairs_history'[Len(merged_pairs_history')]
    IN  /\ Appended(X_history, X_history')
        /\ Appended(merged_pairs_history, merged_pairs_history')
        /\ Appended(node_names_history, node_names_history')
        /\ Symmetric(X)
        /\ Mask(X) = uns_fate_coupling'[call.source].X_coupling
        /\ pair[1] \in Range0(Len(node_names))
        /\ pair[2] \in Range0(Len(node_names))
        /\ node_names_history'[Len(node_names_history')] = node_names

\* the history of a completed call on N fates: N-2 entries, round r (0-based)
\* of dimension N-r
HistoryComplete ==
    /\ Len(X_history) = fate_N - 2
    /\ Len(merged_pairs_history) = fate_N - 2
    /\ Len(node_names_history) = fate_N - 2
    /\ \A r \in 1 .. (fate_N - 2) :
          /\ Len(X_history[r]) = fate_N - (r - 1)
          /\ \A i \in 1 .. Len(X_history[r]) : Len(X_history[r][i]) = fate_N - (r - 1)
          /\ Symmetric(X_history[r])
          /\ Len(node_names_history[r]) = fate_N - (r - 1)
    /\ uns_fate_hierarchy[call.source].history =
          <<X_history, merged_pairs_history, node_names_history>>

\* C15: on completion with N >= 3 fates each history list has N-2 entries;
\* entry r is the coupling matrix of round r as fate_coupling returned it
\* (dimension N-r, untouched by the masking of that or a later round), the
\* merged pair as positions into that round's active list, and the active
\* node list at the start of round r (length N-r, not altered later).
C15_HistoryEntries ==
    [][/\ (pc = "loop" /\ pc' \in {"loop", "done"}) => HistoryStep
       /\ (pc' = "done" /\ fate_N' >= 3) => HistoryComplete']_vars

C15_Witness ==
    /\ Completed
    /\ fate_N = 4
    /\ Len(X_history) = 2
    /\ Len(X_history[2]) = 3
    /\ node_names_history[2] # node_names_history[1]

\* C16: for N >= 3 fates, fate_coupling returning normally in every round,
\* the loop ends after exactly N-2 rounds: the active list has shrunk by one
\* per round down to length 2 (so the `break` of line 110 is never taken),
\* the new node ids are N, N+1, ... in turn, and the root id is 2N-2.
C16_ExactlyNMinus2Rounds ==
    [][(pc = "loop" /\ pc' # "loop" /\ raised' # "ValueError") =>
          /\ counter + 1 = fate_N - 2
          /\ Len(node_names) = 3
          /\ next_node = fate_N + counter
          /\ \A r \in 1 .. counter : Len(node_names_history[r]) = fate_N - (r - 1)
          /\ pc' = "done" =>
               /\ Len(node_names') = 2
               /\ next_node' = 2 * fate_N - 2
               /\ \A p \in 1 .. Len(node_names') :
                      parent_map'[node_names'[p]] = 2 * fate_N - 2]_vars

\* C17: in every round, for every finite coupling matrix of dimension >= 3,
\* tied entries or not, the two-step selection on the masked matrix yields
\* positions with ii < jj: never the diagonal or the lower triangle, never
\* one group with itself, and the insertion position min(ii, jj) is ii.
C17_SelectionAboveDiagonal ==
    \A r \in 1 .. Len(merged_pairs_history) :
        LET ii == merged_pairs_history[r][1]
            jj == merged_pairs_history[r][2]
        IN  Len(X_history[r]) >= 3 =>
                /\ ii \in Range0(Len(X_history[r]))
                /\ jj \in Range0(Len(X_history[r]))
                /\ ii < jj
                /\ Min2(ii, jj) = ii

\* a selection was made on a matrix whose largest entries lie on or below
\* the diagonal and whose upper triangle holds its maximum more than once
C17_Witness ==
    /\ pc = "selected"
    /\ LET X == X_history[1]
           upper == {pr \in UpperPairs(Len(X)) : X[pr[1] + 1][pr[2] + 1] = UpperMax(X)}
       IN  /\ Cardinality(upper) >= 2
           /\ \E i, j \in 1 .. Len(X) : i >= j /\ X[i][j] > UpperMax(X)
           /\ \E i, j \in 1 .. Len(X) : X[i][j] # X[j][i]

====
